---- MODULE Spec2Model ----
(***************************************************************************)
(* Quota-gated chat session provisioning (src/app/actions/create-session.ts)*)
(*                                                                         *)
(* The server actions createSession, getMessageUsage and getCurrentPlan    *)
(* run as concurrent asynchronous invocations ("slots").  Each awaited     *)
(* call is a suspension point: the code between two awaits that touch the  *)
(* usage store runs as one atomic step.  The usage store (lib/message-     *)
(* tracking) is process-external; one calendar day of it is modelled.      *)
(***************************************************************************)
EXTENDS Integers, Sequences, FiniteSets, TLC

\* ---------------------------------------------------------------- bounds
\* concurrent invocations explored by Spec
NumReq == 2
\* k of a burst of limit + k concurrent attempts (SpecBurst)
BurstExtra == 1
\* how far past its allowance an identity keeps issuing requests
MaxOver == 1
\* longest organizationMemberships array returned by the provider
MaxOrgs == 2
\* session API bodies without a credential explored per identity
MaxLost == 1
\* how far outside 0..100 the scores of the language model go
ScoreOver == 1

\* ------------------------------------------------------------- identities
Users == {"u1"}
Origins == {"ip1"}
Loopback == "127.0.0.1"
NoUser == "nouser"
NoHeader == "noheader"
Keys == Users \cup Origins \cup {Loopback}
Plans == {"free", "recruiter"}

VARIABLES usage, client, pc, req, resp, returned, probe, fit

vars == <<usage, client, pc, req, resp, returned, probe, fit>>

\* --------------------------------------------------- identity provider data
\* Value of membership.organization?.publicMetadata?.plan for one entry of
\* organizationMemberships; "null" is an entry that is itself null, whose
\* property access raises.  "free" stands for every value other than
\* "recruiter", undefined (a missing organization or metadata) included: the
\* code only tests === "recruiter".
MemberVals == {"recruiter", "free", "null"}
\* Value of a subscriptionPlan metadata attribute.
PlanVals == {"recruiter", "free"}

SeqsUpTo(S, n) == UNION {[1..m -> S] : m \in 0..n}

\* A response of client.users.getUser: the call rejects ("throws"), resolves
\* to no user object ("null"), or resolves to a user ("ok") whose
\* organizationMemberships is falsy ("absent"), an array, or some other
\* truthy value without a .some method ("other").
Lookups ==
    {l \in [outcome : {"ok", "throws", "null"},
            orgKind : {"absent", "array", "other"},
            orgs    : SeqsUpTo(MemberVals, MaxOrgs),
            pub     : PlanVals,
            priv    : PlanVals] :
        /\ l.orgKind # "array" => l.orgs = <<>>
        /\ l.outcome # "ok" =>
             l.orgKind = "absent" /\ l.pub = "free" /\ l.priv = "free"}

NoLookup ==
    [outcome |-> "throws", orgKind |-> "absent", orgs |-> <<>>,
     pub |-> "free", priv |-> "free"]

\* Where a provider response is faulty, told from the response alone:
\* "raises" when the call rejects, no user comes back, the memberships value
\* has no .some, or a null membership comes before every recruiter one;
\* "masked" when a null membership comes only after a recruiter one;
\* "none" otherwise.
LookupFault(l) ==
    IF l.outcome # "ok" \/ l.orgKind = "other" THEN "raises"
    ELSE IF \E i \in 1..Len(l.orgs) :
                /\ l.orgs[i] = "null"
                /\ \A j \in 1..(i - 1) : l.orgs[j] # "recruiter"
    THEN "raises"
    ELSE IF \E i \in 1..Len(l.orgs) : l.orgs[i] = "null" THEN "masked"
    ELSE "none"

\* Array.prototype.some over the memberships, left to right, stopping at the
\* first recruiter entry; a null entry reached before that raises.
RECURSIVE SomeRecruiter(_)
SomeRecruiter(s) ==
    IF s = <<>> THEN "false"
    ELSE IF Head(s) = "null" THEN "raise"
    ELSE IF Head(s) = "recruiter" THEN "true"
    ELSE SomeRecruiter(Tail(s))

\* The body of the try block of getUserPlan: a tier, or "raise".
TryUserPlan(l) ==
    IF l.outcome = "throws" THEN "raise"
    ELSE IF l.outcome = "null" THEN "raise"
    ELSE IF l.orgKind = "other" THEN "raise"
    ELSE LET hasRecruiterPlan ==
                 SomeRecruiter(IF l.orgKind = "absent" THEN <<>> ELSE l.orgs)
         IN  IF hasRecruiterPlan = "raise" THEN "raise"
             ELSE IF hasRecruiterPlan = "true" THEN "recruiter"
             ELSE IF l.pub = "recruiter" THEN "recruiter"
             ELSE IF l.priv = "recruiter" THEN "recruiter"
             ELSE "free"

\* mutant: the catch block is missing, the error propagates
getUserPlan_NoCatch(l) == TryUserPlan(l)

\* mutant: the private-metadata source is not consulted
getUserPlan_NoPrivate(l) ==
    IF TryUserPlan([l EXCEPT !.priv = "free"]) = "raise" THEN "free"
    ELSE TryUserPlan([l EXCEPT !.priv = "free"])

getUserPlan(l) ==
    IF TryUserPlan(l) = "raise" THEN "free" ELSE TryUserPlan(l)

\* ------------------------------------------------------------ quota policy
\* mutant: the guest test comes after the recruiter test
getMessageLimit_RecruiterFirst(isGuest, plan) ==
    IF plan = "recruiter" THEN 20
    ELSE IF isGuest THEN 3
    ELSE 5

getMessageLimit(isGuest, plan) ==
    IF isGuest THEN 3
    ELSE IF plan = "recruiter" THEN 20
    ELSE 5

BurstSize == getMessageLimit(TRUE, "free") + BurstExtra
Slots == 1..(IF NumReq > BurstSize THEN NumReq ELSE BurstSize)

\* ------------------------------------------------------------ usage tracker
\* lib/message-tracking is not among the sources; its contract is taken from
\* the specification (section 4.4).
hasRemainingMessages(store, identifier, isGuest, limit) ==
    [allowed   |-> store[identifier] < limit,
     remaining |-> IF limit - store[identifier] > 0
                   THEN limit - store[identifier] ELSE 0,
     limit     |-> limit]

incrementMessageCount(store, identifier, isGuest, limit) ==
    [store EXCEPT ![identifier] = @ + 1]

\* ---------------------------------------------------------------- results
NoResult ==
    [kind |-> "none", template |-> "none", limit |-> 0, offer |-> 0,
     allowed |-> FALSE, remaining |-> 0, plan |-> "none"]

Failure(kind) == [NoResult EXCEPT !.kind = kind]

\* mutant: the recruiter and the free branch of the message are exchanged
QuotaMessage_TiersSwapped(isGuest, plan, limit) ==
    IF isGuest
    THEN [NoResult EXCEPT !.kind = "quota", !.template = "signin",
                          !.limit = limit,
                          !.offer = getMessageLimit(FALSE, "free")]
    ELSE IF plan = "recruiter"
    THEN [NoResult EXCEPT !.kind = "quota", !.template = "upgrade",
                          !.limit = limit,
                          !.offer = getMessageLimit(FALSE, "recruiter")]
    ELSE [NoResult EXCEPT !.kind = "quota", !.template = "tomorrow",
                          !.limit = limit]

\* The text thrown when the check is not allowed: which of the three
\* templates, the limit quoted first, and the allowance offered (0: none).
QuotaMessage(isGuest, plan, limit) ==
    IF isGuest
    THEN [NoResult EXCEPT !.kind = "quota", !.template = "signin",
                          !.limit = limit,
                          !.offer = getMessageLimit(FALSE, "free")]
    ELSE IF plan = "recruiter"
    THEN [NoResult EXCEPT !.kind = "quota", !.template = "tomorrow",
                          !.limit = limit]
    ELSE [NoResult EXCEPT !.kind = "quota", !.template = "upgrade",
                          !.limit = limit,
                          !.offer = getMessageLimit(FALSE, "recruiter")]

\* The locals of one invocation; outcome is the kind of its result once it
\* has finished, allowed and remaining are what hasRemainingMessages answered
\* (usage), body is what response.json() gave (data), and steps lists, in the order of their completion, the
\* awaited calls the invocation has made so far: getMessageLimit
\* ("allowance"), hasRemainingMessages ("check"), the fetch of the session
\* API ("provision") and incrementMessageCount ("commit").
BlankReq ==
    [op |-> "none", isGuest |-> FALSE, plan |-> "none", fault |-> "none",
     limit |-> 0, identifier |-> "none", allowed |-> FALSE,
     apiKey |-> FALSE, workflowId |-> FALSE, outcome |-> "none",
     steps |-> <<>>, body |-> "none", remaining |-> 0]

\* No response is delivered in this step.
NoResp == [call |-> BlankReq, result |-> NoResult]

NoProbe ==
    [fn |-> "none", isGuest |-> FALSE, plan |-> "none", lookup |-> NoLookup,
     out |-> "none", limit |-> 0]

\* ------------------------------------------------------------- invocations
\* A client: its signed-in user id (or none) and its x-forwarded-for header
\* (or none).  A behaviour follows the requests of one client; the tracker
\* touches one key per call, so the counts of different identities never
\* interact.
Clients ==
    [userId : Users, header : {NoHeader}]
    \cup [userId : {NoUser}, header : Origins \cup {NoHeader}]

Identifier(userId, header) ==
    IF userId # NoUser THEN userId
    ELSE IF header = NoHeader THEN Loopback
    ELSE header

\* How the promise of an invocation settles, by the kind of its result: it is
\* fulfilled with a value, rejected with the quota message, or rejected with
\* another error.
Settled(kind) ==
    IF kind \in {"secret", "undefined", "usage", "plan"} THEN "fulfilled"
    ELSE IF kind = "quota" THEN "quota"
    ELSE "error"

\* The invocation in slot r ends with this result, which is delivered; its
\* locals s are gone with it.
Finish(r, s, result) ==
    /\ pc' = [pc EXCEPT ![r] = "done"]
    /\ req' = [req EXCEPT ![r] =
                 [BlankReq EXCEPT !.outcome = Settled(result.kind)]]
    /\ resp' = [call |-> s, result |-> result]

\* What getUserPlan answers over all provider responses: the tier it returns,
\* with the fault of the response it was computed from.
PlanAnswers ==
    {[plan |-> getUserPlan(l), fault |-> LookupFault(l)] : l \in Lookups}

\* The answer for a guest, for whom getUserPlan is not called.
GuestAnswer == [plan |-> "free", fault |-> "none"]

\* createSession and getMessageUsage up to the call of hasRemainingMessages:
\* auth(), getUserPlan for a signed-in caller, getMessageLimit, and the
\* tracking identifier (user id, or x-forwarded-for, or the loopback default).
ResolveWith(r, op, answer) ==
    LET userId == client.userId
        isGuest == (userId = NoUser)
        plan == IF userId # NoUser THEN answer.plan ELSE "free"
        messageLimit == getMessageLimit(isGuest, plan)
        identifier == Identifier(userId, client.header)
    IN  /\ pc[r] = "idle"
        /\ usage[identifier] < messageLimit + MaxOver
        /\ pc' = [pc EXCEPT ![r] = "check"]
        /\ req' = [req EXCEPT ![r] =
                     [BlankReq EXCEPT !.op = op,
                                      !.isGuest = isGuest,
                                      !.plan = plan,
                                      !.fault = answer.fault,
                                      !.limit = messageLimit,
                                      !.identifier = identifier,
                                      !.steps = <<"allowance">>]]
        /\ resp' = NoResp
        /\ UNCHANGED <<usage, client, returned, probe, fit>>

ResolveOp(r, op) ==
    IF client.userId = NoUser
    THEN ResolveWith(r, op, GuestAnswer)
    ELSE \E answer \in PlanAnswers : ResolveWith(r, op, answer)

Resolve(r) ==
    \E op \in {"createSession", "getMessageUsage"} : ResolveOp(r, op)

\* The locals of a createSession in slot r once hasRemainingMessages has
\* answered: of the answer's allowed, remaining and limit, createSession
\* reads allowed and limit, and limit is the one passed in.
Answered(r) ==
    [req[r] EXCEPT
       !.allowed = hasRemainingMessages(usage, req[r].identifier,
                                        req[r].isGuest, req[r].limit).allowed,
       !.steps = Append(req[r].steps, "check")]

\* await hasRemainingMessages in createSession: the tracker reads the count
\* and the invocation is resumed later with the answer; or the tracker
\* rejects (the store is unreachable, specification section 4.4) and the
\* rejection propagates.
Check(r) ==
    /\ pc[r] = "check"
    /\ req[r].op = "createSession"
    /\ \/ /\ pc' = [pc EXCEPT ![r] = "gate"]
          /\ req' = [req EXCEPT ![r] = Answered(r)]
          /\ resp' = NoResp
       \/ Finish(r, req[r], Failure("tracker"))
    /\ UNCHANGED <<usage, client, returned, probe, fit>>

\* The locals of slot r with the OPENAI_API_KEY and WORKFLOW_ID configuration
\* of the process that serves the invocation.
Configured(r, apiKey, workflowId) ==
    [req[r] EXCEPT !.apiKey = apiKey, !.workflowId = workflowId]

\* mutant: the external call is issued whatever the check answered
Gate_NoQuota(r) ==
    /\ pc[r] = "gate"
    /\ \E apiKey \in BOOLEAN, workflowId \in BOOLEAN :
         LET s == Configured(r, apiKey, workflowId)
         IN  IF ~apiKey
             THEN Finish(r, s, Failure("config_key"))
             ELSE IF ~workflowId
             THEN Finish(r, s, Failure("config_workflow"))
             ELSE /\ pc' = [pc EXCEPT ![r] = "fetch"]
                  /\ req' = [req EXCEPT ![r] = s]
                  /\ resp' = NoResp
    /\ UNCHANGED <<usage, client, returned, probe, fit>>

\* mutant: the API key is verified before the quota gate
Gate_ConfigFirst(r) ==
    /\ pc[r] = "gate"
    /\ \E apiKey \in BOOLEAN, workflowId \in BOOLEAN :
         LET s == Configured(r, apiKey, workflowId)
         IN  IF ~apiKey
             THEN Finish(r, s, Failure("config_key"))
             ELSE IF ~s.allowed
             THEN Finish(r, s, QuotaMessage(s.isGuest, s.plan, s.limit))
             ELSE IF ~workflowId
             THEN Finish(r, s, Failure("config_workflow"))
             ELSE /\ pc' = [pc EXCEPT ![r] = "fetch"]
                  /\ req' = [req EXCEPT ![r] = s]
                  /\ resp' = NoResp
    /\ UNCHANGED <<usage, client, returned, probe, fit>>

\* mutant: the count is incremented right after the quota gate, before the
\* session API is called
Gate_CommitFirst(r) ==
    /\ pc[r] = "gate"
    /\ \E apiKey \in BOOLEAN, workflowId \in BOOLEAN :
         LET s == Configured(r, apiKey, workflowId)
         IN  IF ~s.allowed
             THEN /\ Finish(r, s, QuotaMessage(s.isGuest, s.plan, s.limit))
                  /\ UNCHANGED usage
             ELSE IF ~apiKey
             THEN /\ Finish(r, s, Failure("config_key"))
                  /\ UNCHANGED usage
             ELSE IF ~workflowId
             THEN /\ Finish(r, s, Failure("config_workflow"))
                  /\ UNCHANGED usage
             ELSE /\ pc' = [pc EXCEPT ![r] = "fetch"]
                  /\ req' = [req EXCEPT ![r] =
                               [s EXCEPT !.steps = Append(s.steps, "commit")]]
                  /\ resp' = NoResp
                  /\ usage' = incrementMessageCount(usage, s.identifier,
                                                    s.isGuest, s.limit)
    /\ UNCHANGED <<client, returned, probe, fit>>

\* createSession from its resumption with the answer of the usage check to
\* the fetch of the session API: the quota gate on the answer it holds, then
\* the OPENAI_API_KEY and WORKFLOW_ID checks, then the fetch is issued.
Gate(r) ==
    /\ pc[r] = "gate"
    /\ \E apiKey \in BOOLEAN, workflowId \in BOOLEAN :
         LET s == Configured(r, apiKey, workflowId)
         IN  IF ~s.allowed
             THEN Finish(r, s, QuotaMessage(s.isGuest, s.plan, s.limit))
             ELSE IF ~apiKey
             THEN Finish(r, s, Failure("config_key"))
             ELSE IF ~workflowId
             THEN Finish(r, s, Failure("config_workflow"))
             ELSE /\ pc' = [pc EXCEPT ![r] = "fetch"]
                  /\ req' = [req EXCEPT ![r] = s]
                  /\ resp' = NoResp
    /\ UNCHANGED <<usage, client, returned, probe, fit>>

\* What the session API call can do: reject (network failure), answer with a
\* non-success status, answer 2xx with a body that is not JSON, or answer 2xx
\* with a JSON body.
FetchOutcomes == {"network", "not_ok", "bad_json", "ok"}

\* What response.json() gives for a 2xx response with a JSON body: null, a
\* value without a client_secret property, or an object with one.
Bodies == {"null", "no_secret", "secret"}

\* The counts of identity k consumed, or about to be, by invocations whose
\* body holds no credential.
Lost(k) ==
    usage[k] - returned[k]
    - Cardinality({q \in Slots : /\ pc[q] = "return"
                                 /\ req[q].identifier = k
                                 /\ req[q].body = "secret"})
    + Cardinality({q \in Slots : /\ pc[q] = "commit"
                                 /\ req[q].identifier = k
                                 /\ req[q].body # "secret"})

\* The locals of slot r once the fetch of the session API has settled.
Provisioned(r) ==
    [req[r] EXCEPT !.steps = Append(req[r].steps, "provision")]

\* The locals of slot r once incrementMessageCount has returned.
Committed(r) ==
    [req[r] EXCEPT !.steps = Append(req[r].steps, "commit")]

\* mutant: the count is incremented as soon as the fetch settles, before the
\* response is examined
FetchDone_CommitFirst(r) ==
    /\ pc[r] = "fetch"
    /\ \E o \in FetchOutcomes :
         IF o = "ok"
         THEN \E b \in Bodies :
                /\ pc' = [pc EXCEPT ![r] = "return"]
                /\ req' = [req EXCEPT ![r] =
                             [Provisioned(r) EXCEPT !.body = b]]
                /\ resp' = NoResp
         ELSE Finish(r, Provisioned(r),
                     Failure(IF o = "not_ok" THEN "upstream" ELSE o))
    /\ usage' = incrementMessageCount(usage, req[r].identifier,
                                      req[r].isGuest, req[r].limit)
    /\ UNCHANGED <<client, returned, probe, fit>>

\* The fetch settles: a rejection propagates, a non-success response throws
\* "Failed to create session", response.json() throws on a bad body, and
\* otherwise the invocation holds the parsed body and goes on to
\* incrementMessageCount.  Bodies without a credential are explored up to
\* MaxLost per identity.
FetchDone(r) ==
    /\ pc[r] = "fetch"
    /\ \E o \in FetchOutcomes :
         IF o = "ok"
         THEN \E b \in Bodies :
                /\ b # "secret" => Lost(req[r].identifier) < MaxLost
                /\ pc' = [pc EXCEPT ![r] = "commit"]
                /\ req' = [req EXCEPT ![r] =
                             [Provisioned(r) EXCEPT !.body = b]]
                /\ resp' = NoResp
         ELSE Finish(r, Provisioned(r),
                     Failure(IF o = "not_ok" THEN "upstream" ELSE o))
    /\ UNCHANGED <<usage, client, returned, probe, fit>>

\* mutant: the invocation goes on to its return without the increment
Commit_NoIncrement(r) ==
    /\ pc[r] = "commit"
    /\ pc' = [pc EXCEPT ![r] = "return"]
    /\ req' = [req EXCEPT ![r] = Committed(r)]
    /\ resp' = NoResp
    /\ UNCHANGED <<usage, client, returned, probe, fit>>

\* await incrementMessageCount: the count is incremented and the invocation
\* is resumed later, at its return statement; or the tracker rejects (the
\* store is unreachable, specification section 4.4), the count is as it was
\* and the rejection propagates.
Commit(r) ==
    /\ pc[r] = "commit"
    /\ \/ /\ usage' = incrementMessageCount(usage, req[r].identifier,
                                            req[r].isGuest, req[r].limit)
          /\ pc' = [pc EXCEPT ![r] = "return"]
          /\ req' = [req EXCEPT ![r] = Committed(r)]
          /\ resp' = NoResp
       \/ /\ Finish(r, req[r], Failure("tracker"))
          /\ UNCHANGED usage
    /\ UNCHANGED <<client, returned, probe, fit>>

\* return data.client_secret: reading the property of null raises a
\* TypeError, which rejects the invocation; a body without the property
\* returns undefined; otherwise the credential is returned.
Return(r) ==
    /\ pc[r] = "return"
    /\ IF req[r].body = "null"
       THEN /\ Finish(r, req[r], Failure("type_error"))
            /\ UNCHANGED returned
       ELSE IF req[r].body = "no_secret"
       THEN /\ Finish(r, req[r], Failure("undefined"))
            /\ UNCHANGED returned
       ELSE /\ Finish(r, req[r], Failure("secret"))
            /\ returned' = [returned EXCEPT ![req[r].identifier] = @ + 1]
    /\ UNCHANGED <<usage, client, probe, fit>>

\* The locals of a getMessageUsage in slot r once hasRemainingMessages has
\* answered.
UsageAnswered(r) ==
    LET u == hasRemainingMessages(usage, req[r].identifier,
                                  req[r].isGuest, req[r].limit)
    IN  [req[r] EXCEPT !.allowed = u.allowed,
                       !.remaining = u.remaining,
                       !.steps = Append(req[r].steps, "check")]

\* mutant: the usage query consumes a message
UsageCheck_Counts(r) ==
    /\ pc[r] = "check"
    /\ req[r].op = "getMessageUsage"
    /\ \/ /\ pc' = [pc EXCEPT ![r] = "answer"]
          /\ req' = [req EXCEPT ![r] = UsageAnswered(r)]
          /\ resp' = NoResp
       \/ Finish(r, req[r], Failure("tracker"))
    /\ usage' = incrementMessageCount(usage, req[r].identifier,
                                      req[r].isGuest, req[r].limit)
    /\ UNCHANGED <<client, returned, probe, fit>>

\* await hasRemainingMessages in getMessageUsage: the tracker reads the count
\* and the invocation is resumed later with the answer; or the tracker
\* rejects and the rejection propagates.
UsageCheck(r) ==
    /\ pc[r] = "check"
    /\ req[r].op = "getMessageUsage"
    /\ \/ /\ pc' = [pc EXCEPT ![r] = "answer"]
          /\ req' = [req EXCEPT ![r] = UsageAnswered(r)]
          /\ resp' = NoResp
       \/ Finish(r, req[r], Failure("tracker"))
    /\ UNCHANGED <<usage, client, returned, probe, fit>>

\* getMessageUsage from its resumption to its return: the answer it holds,
\* with the plan.
UsageReturn(r) ==
    /\ pc[r] = "answer"
    /\ Finish(r, req[r],
              [NoResult EXCEPT !.kind = "usage",
                               !.allowed = req[r].allowed,
                               !.remaining = req[r].remaining,
                               !.limit = req[r].limit,
                               !.plan = req[r].plan])
    /\ UNCHANGED <<usage, client, returned, probe, fit>>

\* getCurrentPlan: "free" for a guest, getUserPlan otherwise.
GetCurrentPlanWith(r, answer) ==
    LET userId == client.userId
        s == [BlankReq EXCEPT !.op = "getCurrentPlan",
                              !.isGuest = (userId = NoUser),
                              !.fault = answer.fault]
    IN  /\ pc[r] = "idle"
        /\ Finish(r, s, [NoResult EXCEPT
                           !.kind = "plan",
                           !.plan = IF userId = NoUser THEN "free"
                                    ELSE answer.plan])
        /\ UNCHANGED <<usage, client, returned, probe, fit>>

GetCurrentPlan(r) ==
    IF client.userId = NoUser
    THEN GetCurrentPlanWith(r, GuestAnswer)
    ELSE \E answer \in PlanAnswers : GetCurrentPlanWith(r, answer)

\* The slot serves the next invocation.
Recycle(r) ==
    /\ pc[r] = "done"
    /\ pc' = [pc EXCEPT ![r] = "idle"]
    /\ req' = [req EXCEPT ![r] = BlankReq]
    /\ resp' = NoResp
    /\ UNCHANGED <<usage, client, returned, probe, fit>>

\* ---------------------------------------------- pure functions, applied
ProbeInputs ==
    {[NoProbe EXCEPT !.fn = "getMessageLimit", !.isGuest = g, !.plan = p] :
        g \in BOOLEAN, p \in Plans}
    \cup {[NoProbe EXCEPT !.fn = "getUserPlan", !.lookup = l] : l \in Lookups}

ApplyLimit ==
    /\ probe.fn = "getMessageLimit"
    /\ probe.out = "none"
    /\ probe' = [probe EXCEPT !.out = "limit",
                              !.limit = getMessageLimit(probe.isGuest,
                                                        probe.plan)]
    /\ UNCHANGED <<usage, client, pc, req, resp, returned, fit>>

ApplyPlan ==
    /\ probe.fn = "getUserPlan"
    /\ probe.out = "none"
    /\ probe' = [probe EXCEPT !.out = getUserPlan(probe.lookup)]
    /\ UNCHANGED <<usage, client, pc, req, resp, returned, fit>>

\* -------------------------------------------------------------- fit scorer
\* The handler POST sends the job description with the fixed CV to the chat
\* completions API and returns what JSON.parse makes of the answer.  It shares
\* no state with the session actions.

Verdicts == {"High Match", "Potential Match", "Low Match"}

\* The matchScore and verdict of a JSON object: the score is an integer, a
\* number with a fraction, a value that is no number, or missing; the verdict
\* is one of the three literals, another value, or missing.
Scores == (0 - ScoreOver)..(100 + ScoreOver)
ScoreKinds == {"int", "fraction", "text", "missing"}
VerdictVals == Verdicts \cup {"other", "missing"}

\* What message.content denotes: undefined, null, a string that is no JSON
\* text, or a JSON text of a value that is an object or not ("other": a
\* number, an array, a string, a boolean).
Contents ==
    {c \in [kind      : {"undefined", "null", "invalid", "object", "other"},
            scoreKind : ScoreKinds,
            score     : Scores,
            verdict   : VerdictVals] :
        /\ c.scoreKind # "int" => c.score = 0
        /\ c.kind # "object" =>
             c.scoreKind = "missing" /\ c.verdict = "missing"}

NoContent ==
    [kind |-> "undefined", scoreKind |-> "missing", score |-> 0,
     verdict |-> "missing"]

\* What the completions call can do: reject (network failure), answer with a
\* non-success status, answer 2xx with a body that is no JSON, or answer 2xx
\* with a JSON body whose choices are absent, empty, hold a first choice
\* without message, or hold a first choice with a message.
Upstreams ==
    {u \in [outcome : {"network", "not_ok", "bad_json", "ok"},
            shape   : {"no_choices", "empty_choices", "no_message",
                       "message"},
            content : Contents] :
        /\ u.outcome # "ok" => u.shape = "no_choices"
        /\ u.shape # "message" => u.content = NoContent}

\* No completions call was made.
NoUpstream ==
    [outcome |-> "none", shape |-> "no_choices", content |-> NoContent]

\* The JSON value of a response body: null, an object with its score and
\* verdict, or another value.
NullValue ==
    [kind |-> "null", scoreKind |-> "missing", score |-> 0,
     verdict |-> "missing"]

\* JSON.parse raised instead of returning a value.
ParseRaised ==
    [kind |-> "raise", scoreKind |-> "missing", score |-> 0,
     verdict |-> "missing"]

\* JSON.parse(content): the argument is converted to a string first, so null
\* parses as the text "null" and undefined ("undefined") does not parse.
JsonParse(content) ==
    IF content.kind \in {"undefined", "invalid"} THEN ParseRaised
    ELSE IF content.kind = "null" THEN NullValue
    ELSE content

\* The responses of the handler; FitRaised and FitThrown are no responses:
\* the try block raised, the handler threw.
FitError(message) ==
    [status |-> 500, error |-> message, value |-> NullValue]
FitOk(value) == [status |-> 200, error |-> "none", value |-> value]
FitRaised == [status |-> 0, error |-> "raise", value |-> NullValue]
FitThrown == [status |-> 0, error |-> "thrown", value |-> NullValue]
NoFitResponse == [status |-> 0, error |-> "none", value |-> NullValue]

\* The try block of POST from the settling of fetch on.
TryRespond(u) ==
    IF u.outcome = "network" THEN FitRaised
    ELSE IF u.outcome = "not_ok" THEN FitRaised
    ELSE IF u.outcome = "bad_json" THEN FitRaised
    ELSE IF u.shape # "message" THEN FitRaised
    ELSE IF JsonParse(u.content) = ParseRaised THEN FitRaised
    ELSE FitOk(JsonParse(u.content))

\* mutant: the catch block is missing
Respond_NoCatch(u) ==
    IF TryRespond(u) = FitRaised THEN FitThrown ELSE TryRespond(u)

\* POST from the settling of fetch on, with its catch block.
Respond(u) ==
    IF TryRespond(u) = FitRaised THEN FitError("Failed to analyze job fit")
    ELSE TryRespond(u)

IdleFit ==
    [pc |-> "idle", upstream |-> NoUpstream, response |-> NoFitResponse]

\* POST up to the fetch: req.json() raises on a body that is no JSON, which
\* the catch block answers; a missing OPENAI_API_KEY is answered at once.
FitReceive ==
    /\ fit.pc = "idle"
    /\ \E body \in {"bad_body", "ok"}, apiKey \in BOOLEAN :
         IF body = "bad_body"
         THEN fit' = [fit EXCEPT
                        !.pc = "done",
                        !.response = FitError("Failed to analyze job fit")]
         ELSE IF ~apiKey
         THEN fit' = [fit EXCEPT
                        !.pc = "done",
                        !.response = FitError("Server configuration error")]
         ELSE fit' = [fit EXCEPT !.pc = "fetch"]
    /\ UNCHANGED <<usage, client, pc, req, resp, returned, probe>>

\* The fetch settles and POST returns.
FitFetchDone ==
    /\ fit.pc = "fetch"
    /\ \E u \in Upstreams :
         fit' = [pc |-> "done", upstream |-> u, response |-> Respond(u)]
    /\ UNCHANGED <<usage, client, pc, req, resp, returned, probe>>

\* The handler serves the next request.
FitRecycle ==
    /\ fit.pc = "done"
    /\ fit' = IdleFit
    /\ UNCHANGED <<usage, client, pc, req, resp, returned, probe>>

\* ----------------------------------------------------------- specifications
InitStore ==
    /\ usage = [k \in Keys |-> 0]
    /\ returned = [k \in Keys |-> 0]
    /\ req = [r \in Slots |-> BlankReq]
    /\ resp = NoResp
    /\ client \in Clients

Init ==
    /\ InitStore
    /\ pc = [r \in Slots |-> IF r <= NumReq THEN "idle" ELSE "off"]
    /\ probe = NoProbe
    /\ fit = IdleFit

Next ==
    \E r \in Slots :
        \/ Resolve(r)
        \/ Check(r)
        \/ Gate(r)
        \/ FetchDone(r)
        \/ Commit(r)
        \/ Return(r)
        \/ UsageCheck(r)
        \/ UsageReturn(r)
        \/ GetCurrentPlan(r)
        \/ Recycle(r)

Spec == Init /\ [][Next]_vars

\* A burst of createSession invocations by one guest on a fresh count: every
\* slot serves one invocation, none is reused.
InitBurst ==
    /\ InitStore
    /\ client.userId = NoUser
    /\ pc = [r \in Slots |-> IF r <= BurstSize THEN "idle" ELSE "off"]
    /\ probe = NoProbe
    /\ fit = IdleFit

NextBurst ==
    \E r \in Slots :
        \/ ResolveOp(r, "createSession")
        \/ Check(r)
        \/ Gate(r)
        \/ FetchDone(r)
        \/ Commit(r)
        \/ Return(r)

SpecBurst == InitBurst /\ [][NextBurst]_vars

\* The pure functions on every input of their bounded domains.
InitPure ==
    /\ InitStore
    /\ pc = [r \in Slots |-> "off"]
    /\ probe \in ProbeInputs
    /\ fit = IdleFit

NextPure == ApplyLimit \/ ApplyPlan

SpecPure == InitPure /\ [][NextPure]_vars

\* The fit scorer alone.
InitFit ==
    /\ InitStore
    /\ pc = [r \in Slots |-> "off"]
    /\ probe = NoProbe
    /\ fit = IdleFit

NextFit == FitReceive \/ FitFetchDone \/ FitRecycle

SpecFit == InitFit /\ [][NextFit]_vars

\* ------------------------------------------------------------------ claims
InFlight ==
    {r \in Slots :
       pc[r] \in {"check", "gate", "answer", "fetch", "commit", "return"}}

\* The identity the behaviour's client is tracked under.
ClientKey == Identifier(client.userId, client.header)

\* The results of a createSession whose session API call failed.
UpstreamKinds == {"upstream", "network", "bad_json"}

\* C1: a createSession whose session API call fails (non-success response,
\* network failure, unreadable body) ends in an error, and the step that ends
\* it leaves every usage count as it was; a count changes only by the
\* increment of an invocation whose session API call has answered with
\* success, so that a failed call has consumed nothing, and no more
\* credentials are returned for an identity than its count.
C1_FailedCallConsumesNothing ==
    /\ [](\A k \in Keys : returned[k] <= usage[k])
    /\ [](resp.result.kind \in UpstreamKinds =>
            /\ resp.call.op = "createSession"
            /\ \E r \in Slots : pc[r] = "done" /\ req[r].outcome = "error")
    /\ [][resp'.result.kind \in UpstreamKinds =>
            usage' = usage /\ returned' = returned]_vars
    /\ [][usage' # usage =>
            \E r \in Slots :
              /\ pc[r] = "commit"
              /\ pc'[r] = "return"
              /\ req[r].body \in Bodies
              /\ usage' = [usage EXCEPT ![req[r].identifier] = @ + 1]]_vars

C1_Witness ==
    /\ resp.result.kind = "upstream"
    /\ usage[resp.call.identifier] = 2
    /\ \E r \in Slots : pc[r] = "commit"

\* C2 (as claimed): a burst of limit + k concurrent createSession attempts by
\* one identity on a fresh count never takes the count past the limit, and
\* when all of them have ended without an upstream or configuration error,
\* exactly limit returned a credential and k were rejected for quota.
C2_BurstAdmitsExactlyLimit ==
    LET limit == getMessageLimit(client.userId = NoUser, "free")
        burst == 1..BurstSize
    IN  /\ usage[ClientKey] <= limit
        /\ (\A r \in burst : pc[r] = "done" /\ req[r].outcome # "error") =>
             /\ Cardinality({r \in burst : req[r].outcome = "fulfilled"})
                  = limit
             /\ Cardinality({r \in burst : req[r].outcome = "quota"})
                  = BurstExtra
             /\ usage[ClientKey] = limit

\* C3: once exactly limit createSession calls have returned a credential for
\* an identity, the usage check for that identity and limit reports
\* allowed = FALSE and remaining = 0: as computed on the store in every such
\* state, as answered to every invocation whose hasRemainingMessages call is
\* made in such a state, and as returned by getMessageUsage, which returns
\* the answer it got.
C3_ExhaustedAfterLimit ==
    /\ [](\A g \in BOOLEAN, p \in Plans :
            LET limit == getMessageLimit(g, p)
            IN  returned[ClientKey] = limit =>
                  hasRemainingMessages(usage, ClientKey, g, limit)
                    = [allowed |-> FALSE, remaining |-> 0, limit |-> limit])
    /\ [][\A r \in Slots :
            (/\ pc[r] = "check"
             /\ pc'[r] \in {"gate", "answer"}
             /\ returned[req[r].identifier] = req[r].limit) =>
               /\ ~req'[r].allowed
               /\ req'[r].remaining = 0]_vars
    /\ [](resp.result.kind = "usage" =>
            /\ resp.result.allowed = resp.call.allowed
            /\ resp.result.remaining = resp.call.remaining
            /\ resp.result.limit = resp.call.limit)

C3_Witness ==
    /\ resp.result.kind = "usage"
    /\ resp.call.plan = "recruiter"
    /\ returned[resp.call.identifier] = getMessageLimit(FALSE, "recruiter")
    /\ ~resp.result.allowed
    /\ resp.result.remaining = 0
    /\ InFlight = {}

\* The invocation with locals c got an answer from hasRemainingMessages.
CheckAnswered(c) == Len(c.steps) > 1

\* C4: a createSession whose usage check answered allowed = FALSE fails with
\* the quota message when it is resumed with that answer, whatever other
\* invocations did meanwhile: it never reaches the session API call or the
\* commit, and the step that rejects it changes no usage count.
C4_NotAllowedNeverCommits ==
    /\ [](\A r \in Slots :
            pc[r] \in {"fetch", "commit", "return"} => req[r].allowed)
    /\ []((/\ resp.call.op = "createSession"
            /\ CheckAnswered(resp.call)
            /\ ~resp.call.allowed) =>
            resp.result.kind = "quota")
    /\ [][(/\ resp'.call.op = "createSession"
            /\ CheckAnswered(resp'.call)
            /\ ~resp'.call.allowed) =>
            usage' = usage /\ returned' = returned]_vars

C4_Witness ==
    /\ resp.call.op = "createSession"
    /\ CheckAnswered(resp.call)
    /\ ~resp.call.allowed
    /\ resp.result.kind = "quota"
    /\ usage[resp.call.identifier] = resp.call.limit

\* C5: getMessageLimit is 3 for a guest of either tier, 5 for a signed-in
\* free user and 20 for a signed-in recruiter, on every (isGuest, tier) pair.
C5_AllowanceTable ==
    probe.out = "limit" =>
        /\ probe.isGuest => probe.limit = 3
        /\ (~probe.isGuest /\ probe.plan = "free") => probe.limit = 5
        /\ (~probe.isGuest /\ probe.plan = "recruiter") => probe.limit = 20

C5_Witness ==
    /\ probe.out = "limit"
    /\ probe.isGuest
    /\ probe.plan = "recruiter"
    /\ probe.limit = 3

ConfigKinds == {"config_key", "config_workflow"}

\* C6 (as claimed): a createSession served without the API key or without the
\* workflow identifier, its usage check answered, fails with the configuration
\* error, whatever the usage count.
C6_ConfigErrorAlways ==
    (/\ resp.call.op = "createSession"
     /\ CheckAnswered(resp.call)
     /\ ~(resp.call.apiKey /\ resp.call.workflowId)) =>
        resp.result.kind \in ConfigKinds

\* C6 (amended): a createSession served without the API key or without the
\* workflow identifier never issues the session API call and never fails
\* with an upstream error; it fails with the configuration error when its
\* usage check allowed it (the API key error first), and with the quota
\* message when the check did not; when the check itself is rejected by the
\* tracker, the configuration is never read and that rejection propagates.
C6_ConfigErrorWhenAllowed ==
    /\ \A r \in Slots :
         pc[r] \in {"fetch", "commit", "return"} =>
             req[r].apiKey /\ req[r].workflowId
    /\ (/\ resp.call.op = "createSession"
        /\ CheckAnswered(resp.call)
        /\ ~(resp.call.apiKey /\ resp.call.workflowId)) =>
          /\ resp.call.allowed =>
               resp.result.kind = IF ~resp.call.apiKey THEN "config_key"
                                  ELSE "config_workflow"
          /\ ~resp.call.allowed => resp.result.kind = "quota"
    /\ (resp.call.op = "createSession" /\ ~CheckAnswered(resp.call)) =>
          resp.result.kind = "tracker"

C6_Witness ==
    /\ resp.call.op = "createSession"
    /\ CheckAnswered(resp.call)
    /\ resp.call.allowed
    /\ resp.call.apiKey
    /\ ~resp.call.workflowId
    /\ usage[resp.call.identifier] >= resp.call.limit
    /\ resp.result.kind = "config_workflow"

\* A provider response is well formed: a user came back, and its memberships
\* are absent or an array without null entries.
WellFormed(l) ==
    /\ l.outcome = "ok"
    /\ l.orgKind \in {"absent", "array"}
    /\ \A i \in 1..Len(l.orgs) : l.orgs[i] # "null"

MarksRecruiter(l) ==
    \/ \E i \in 1..Len(l.orgs) : l.orgs[i] = "recruiter"
    \/ l.pub = "recruiter"
    \/ l.priv = "recruiter"

\* C7: on every well-formed provider response getUserPlan returns recruiter
\* when an organization membership, the public metadata or the private
\* metadata marks recruiter, and free otherwise; an organization marked
\* recruiter wins over a public metadata value of free.
C7_AnySourceMarksRecruiter ==
    (probe.fn = "getUserPlan" /\ probe.out # "none"
     /\ WellFormed(probe.lookup)) =>
        probe.out = IF MarksRecruiter(probe.lookup) THEN "recruiter"
                    ELSE "free"

C7_Witness ==
    /\ probe.fn = "getUserPlan"
    /\ probe.lookup.outcome = "ok"
    /\ probe.lookup.orgs = <<"free", "recruiter">>
    /\ probe.lookup.pub = "free"
    /\ probe.lookup.priv = "free"
    /\ probe.out = "recruiter"

\* The tier an invocation works with, while it runs and in its response.
TierOf(c, result) ==
    IF c.op = "getCurrentPlan" THEN result.plan ELSE c.plan

\* C8 (as claimed): whenever the provider lookup throws or returns malformed
\* data, the invocation proceeds with tier free.
C8_FaultyLookupIsFree ==
    /\ \A r \in InFlight : req[r].fault # "none" => req[r].plan = "free"
    /\ (resp.call.op # "none" /\ resp.call.fault # "none") =>
          TierOf(resp.call, resp.result) = "free"

\* C8 (amended): plan resolution never propagates an error, and whenever the
\* provider lookup throws, or returns data whose reading raises (no user, a
\* memberships value that is no array, a null membership reached before any
\* recruiter membership), createSession, getMessageUsage and getCurrentPlan
\* proceed with tier free and the allowance of a free user; a null membership
\* that follows a recruiter membership is never read, and the tier is
\* recruiter.
C8_RaisingLookupIsFree ==
    /\ \A r \in InFlight :
         /\ req[r].plan \in Plans
         /\ req[r].fault = "raises" =>
              /\ req[r].plan = "free"
              /\ req[r].limit = getMessageLimit(FALSE, "free")
         /\ req[r].fault = "masked" => req[r].plan = "recruiter"
    /\ resp.call.op # "none" =>
         /\ TierOf(resp.call, resp.result) \in Plans
         /\ resp.call.fault = "raises" =>
              /\ TierOf(resp.call, resp.result) = "free"
              /\ resp.call.op = "getCurrentPlan" =>
                   resp.result.kind = "plan"
              /\ resp.call.op = "getMessageUsage" =>
                   /\ resp.result.kind \in {"usage", "tracker"}
                   /\ resp.call.limit = getMessageLimit(FALSE, "free")
                   /\ resp.result.kind = "usage" =>
                        /\ resp.result.plan = "free"
                        /\ resp.result.limit = resp.call.limit
              /\ resp.call.op = "createSession" =>
                   resp.call.limit = getMessageLimit(FALSE, "free")
         /\ resp.call.fault = "masked" =>
              TierOf(resp.call, resp.result) = "recruiter"

C8_Witness ==
    /\ resp.call.op = "createSession"
    /\ resp.call.fault = "raises"
    /\ resp.call.plan = "free"
    /\ resp.result.kind = "secret"
    /\ \E r \in InFlight : req[r].fault = "raises"

\* C9: no step of a getMessageUsage invocation, however it interleaves with
\* other invocations, changes a usage count.
C9_UsageQueryReadsOnly ==
    [][\A r \in Slots :
         (pc'[r] # pc[r]
          /\ (req[r].op = "getMessageUsage"
              \/ req'[r].op = "getMessageUsage"
              \/ resp'.call.op = "getMessageUsage")) =>
            usage' = usage]_vars

C9_Witness ==
    /\ resp.result.kind = "usage"
    /\ resp.result.allowed
    /\ resp.result.remaining = 1
    /\ usage[resp.call.identifier] = resp.call.limit
    /\ \E r \in Slots : pc[r] = "return"

\* C10: the quota rejection of createSession is the sign-in message offering
\* the signed-in free allowance for a guest, the come-back-tomorrow message
\* for a signed-in recruiter, and the upgrade message offering the recruiter
\* allowance for a signed-in free user; each quotes the limit of the check,
\* which is the allowance of that (isGuest, tier).
C10_QuotaMessageByTier ==
    resp.result.kind = "quota" =>
        LET c == resp.call
            m == resp.result
        IN  /\ m.limit = c.limit
            /\ c.isGuest =>
                 m.template = "signin" /\ m.limit = 3 /\ m.offer = 5
            /\ (~c.isGuest /\ c.plan = "recruiter") =>
                 m.template = "tomorrow" /\ m.limit = 20 /\ m.offer = 0
            /\ (~c.isGuest /\ c.plan = "free") =>
                 m.template = "upgrade" /\ m.limit = 5 /\ m.offer = 20

C10_Witness ==
    /\ resp.result.kind = "quota"
    /\ ~resp.call.isGuest
    /\ resp.call.plan = "recruiter"
    /\ resp.result.template = "tomorrow"

\* The upstream outcomes of the fit scorer that are failures: a network
\* failure, a non-success status, a body that is no JSON or lacks
\* choices[0].message, and a content that is undefined or a string that is
\* no JSON text.
FitUpstreamFailed(u) ==
    \/ u.outcome \in {"network", "not_ok", "bad_json"}
    \/ /\ u.outcome = "ok"
       /\ \/ u.shape # "message"
          \/ u.content.kind \in {"undefined", "invalid"}

\* C11: the fit scorer handler never throws: it always ends with a response,
\* and on every failed upstream outcome that response is the generic
\* analysis-failed error with status 500 and no part of a result.
C11_FitNeverThrows ==
    fit.pc = "done" =>
        /\ fit.response.status \in {200, 500}
        /\ fit.response.error # "thrown"
        /\ FitUpstreamFailed(fit.upstream) =>
             fit.response = FitError("Failed to analyze job fit")

C11_Witness ==
    /\ fit.pc = "done"
    /\ fit.upstream.outcome = "ok"
    /\ fit.upstream.shape = "message"
    /\ fit.upstream.content.kind = "invalid"
    /\ fit.response = FitError("Failed to analyze job fit")

\* C12: every successful (status 200) result of the fit scorer is a validated
\* assessment, matchScore an integer within 0..100 and verdict one of the
\* three literals, whatever JSON content the language model returned.
C12_SuccessIsValidated ==
    (fit.pc = "done" /\ fit.response.status = 200) =>
        /\ fit.response.value.kind = "object"
        /\ fit.response.value.scoreKind = "int"
        /\ fit.response.value.score \in 0..100
        /\ fit.response.value.verdict \in Verdicts

\* The calls of a createSession execution that returns a credential, in the
\* order of the source: getMessageLimit, hasRemainingMessages, the fetch of
\* the session API, incrementMessageCount.
SessionSteps == <<"allowance", "check", "provision", "commit">>

\* C13: a createSession execution that returns a credential has made the
\* allowance resolution, the usage check, the session API call and the usage
\* commit in this order, each exactly once and each finished before the
\* next; an execution waiting for the session API has made exactly the first
\* two, one about to commit exactly the first three, and one about to return
\* all four.
C13_StepsInOrder ==
    /\ \A r \in Slots :
         /\ pc[r] = "check" => req[r].steps = SubSeq(SessionSteps, 1, 1)
         /\ pc[r] = "gate" => req[r].steps = SubSeq(SessionSteps, 1, 2)
         /\ pc[r] = "fetch" => req[r].steps = SubSeq(SessionSteps, 1, 2)
         /\ pc[r] = "commit" => req[r].steps = SubSeq(SessionSteps, 1, 3)
         /\ pc[r] = "return" => req[r].steps = SessionSteps
    /\ resp.result.kind = "secret" =>
         /\ resp.call.op = "createSession"
         /\ resp.call.steps = SessionSteps

C13_Witness ==
    /\ resp.result.kind = "secret"
    /\ resp.call.op = "createSession"
    /\ resp.call.steps = SessionSteps
    /\ usage[resp.call.identifier] > resp.call.limit
    /\ \E r \in Slots : pc[r] = "gate"

====
